---- MODULE Spec2Model ----
(***************************************************************************)
(* Model of the invoice repository of meteroid-store                       *)
(* (crates/meteroid-store/src/repositories/invoices.rs): invoice insertion *)
(* with its MRR ledger derivation (process_mrr), and the invoice lifecycle *)
(* operations the batch workers drive.                                     *)
(*                                                                         *)
(* Option<T> values are sequences of length at most one: None is << >> and *)
(* Some(x) is <<x>>.  An invoice's id is its position in the invoices      *)
(* table (ids are fresh, Uuid::now_v7).                                    *)
(***************************************************************************)
EXTENDS Integers, Sequences, FiniteSets, TLC

VARIABLES
    invoices,   \* the invoice table: a sequence of invoice rows, id = index
    ledger,     \* bi_mrr_movement_log: the rows in insertion order
    mrr,        \* subscription.mrr_cents, per subscription
    events,     \* subscription_event rows per (subscription, date), in order
    now,        \* the clock the workers and the database read
    usage,      \* what the usage source currently reports
    price_job,  \* the price worker's row in flight: << >> or <<[id, lines]>>
    fin_job,    \* per finalize-worker run, its row in flight
    last,       \* the last writing operation and what it returned
    eventbus,   \* the invoices whose invoice_finalized event was published
    issue_job,  \* the issue worker's invoice in flight: << >> or <<id>>
    activated,  \* the subscriptions that have been activated
    fee,        \* a fee resolution: its arguments and what it returned
    slot_call,  \* a slot lookup: its client, its arguments, what it returned
    usage_call  \* a tiered pricing: tiers, quantity, what was billed

vars == <<invoices, ledger, mrr, events, now, usage, price_job, fin_job, last,
          eventbus, issue_job, activated, fee, slot_call, usage_call>>

(***************************************************************************)
(* Bounds of the model.                                                    *)
(***************************************************************************)
MaxInvoices == 2            \* rows of the invoice table, insertion alone
MaxLifecycleInvoices == 1   \* rows of the invoice table, lifecycle
MaxTime == 3                \* the last clock value
MaxFeeEntries == 3          \* rates, thresholds or tiers of one fee
MaxQuantity == 6            \* the largest usage quantity priced

Subs == {1, 2}
Dates == {1, 2}

None == << >>
Some(x) == <<x>>

(***************************************************************************)
(* Enumerations.                                                           *)
(***************************************************************************)
InvoiceType == {"Recurring", "OneTime", "Adjustment"}

InvoiceStatusEnum == {"Draft", "PendingFinalization", "Finalized"}

SubscriptionEventType ==
    {"Created", "Activated", "Switch", "Cancelled", "Reactivated", "Updated"}

MrrMovementType ==
    {"NewBusiness", "Expansion", "Contraction", "Churn", "Reactivation"}

Ev(t, d) == [event_type |-> t, mrr_delta |-> d]

(***************************************************************************)
(* The subscription events the database holds.  They are produced by the   *)
(* subscription lifecycle, outside this repository; each layout is one     *)
(* content of the table.  Together the layouts hold every event type with  *)
(* a positive, a negative, a zero and an absent delta, single-event days,  *)
(* same-day offsetting events and days without events.                     *)
(***************************************************************************)
EventLayouts ==
    { [c \in Subs \X Dates |->
        CASE c = <<1, 1>> -> << Ev("Cancelled", Some(-5000)) >>
          [] c = <<1, 2>> -> << Ev("Cancelled", Some(-5000)),
                                Ev("Reactivated", Some(5000)),
                                Ev("Updated", Some(0)) >>
          [] c = <<2, 1>> -> << Ev("Created", Some(3000)),
                                Ev("Switch", Some(2000)),
                                Ev("Switch", Some(-2000)),
                                Ev("Updated", None) >>
          [] OTHER        -> << Ev("Activated", Some(3000)),
                                Ev("Updated", Some(2000)),
                                Ev("Updated", Some(-2000)) >> ],
      [c \in Subs \X Dates |->
        CASE c = <<1, 1>> -> << Ev("Created", Some(-3000)),
                                Ev("Activated", Some(-1000)),
                                Ev("Cancelled", Some(5000)) >>
          [] c = <<1, 2>> -> << >>
          [] c = <<2, 1>> -> << Ev("Switch", None), Ev("Cancelled", Some(0)) >>
          [] OTHER        -> << Ev("Reactivated", Some(-5000)),
                                Ev("Created", Some(0)),
                                Ev("Activated", None) >> ] }

(***************************************************************************)
(* InvoiceNew -> InvoiceRowNew: the row an insert stores.                  *)
(***************************************************************************)
InvoiceNew(status, invoice_type, subscription_id, invoice_date, plan_version_id) ==
    [ status                |-> status,
      external_status       |-> None,
      subscription_id       |-> subscription_id,
      line_items            |-> << >>,
      issued                |-> FALSE,
      issue_attempts        |-> 0,
      last_issue_attempt_at |-> None,
      last_issue_error      |-> None,
      data_updated_at       |-> None,
      invoice_date          |-> invoice_date,
      plan_version_id       |-> plan_version_id,
      invoice_type          |-> invoice_type,
      finalized_at          |-> None ]

(***************************************************************************)
(* process_mrr, piece by piece.                                            *)
(***************************************************************************)

\* process_mrr's guard with the type test dropped.
moves_mrr_any_type(invoice_type) == TRUE

\* Only Recurring and Adjustment invoices move MRR.
moves_mrr(invoice_type) ==
    invoice_type = "Recurring" \/ invoice_type = "Adjustment"

\* SubscriptionEventRow::fetch_by_subscription_id_and_date
fetch_by_subscription_id_and_date(subscription_id, date) ==
    events[<<subscription_id, date>>]

\* The delta match with only the None arm skipping.
has_mrr_delta_zero_kept(event) == event.mrr_delta # None

\* `None | Some(0) => continue`: the events that yield a ledger row.
has_mrr_delta(event) ==
    event.mrr_delta # None /\ event.mrr_delta # Some(0)

\* The movement match with the Cancelled arm falling into the sign test.
movement_type_sign_only(event_type, mrr_delta) ==
    CASE event_type \in {"Created", "Activated"} -> "NewBusiness"
      [] event_type = "Reactivated" -> "Reactivation"
      [] OTHER -> IF mrr_delta > 0 THEN "Expansion" ELSE "Contraction"

\* `let movement_type = match event.event_type { ... }`
movement_type(event_type, mrr_delta) ==
    CASE event_type = "Created"     -> "NewBusiness"
      [] event_type = "Activated"   -> "NewBusiness"
      [] event_type = "Switch"      ->
            IF mrr_delta > 0 THEN "Expansion" ELSE "Contraction"
      [] event_type = "Cancelled"   -> "Churn"
      [] event_type = "Reactivated" -> "Reactivation"
      [] event_type = "Updated"     ->
            IF mrr_delta > 0 THEN "Expansion" ELSE "Contraction"

\* `let description = match event.event_type { ... }`
description(event_type) ==
    CASE event_type = "Created"     -> "Subscription created"
      [] event_type = "Activated"   -> "Subscription activated"
      [] event_type = "Switch"      -> "Switched plan"
      [] event_type = "Cancelled"   -> "Subscription cancelled"
      [] event_type = "Reactivated" -> "Subscription reactivated"
      [] event_type = "Updated"     -> "Subscription updated"

\* The loop that builds mrr_logs: one BiMrrMovementLogRowNew per kept event.
mrr_logs(inserted, id, subscription_events) ==
    LET kept == SelectSeq(subscription_events, has_mrr_delta)
    IN  [ k \in 1..Len(kept) |->
            [ description     |-> description(kept[k].event_type),
              movement_type   |-> movement_type(kept[k].event_type,
                                                kept[k].mrr_delta[1]),
              net_mrr_change  |-> kept[k].mrr_delta[1],
              applies_to      |-> inserted.invoice_date,
              invoice_id      |-> id,
              plan_version_id |-> inserted.plan_version_id[1] ] ]

\* `inserted.plan_version_id.unwrap()` panics once a row is to be built for
\* an invoice without plan version.
unwrap_panics(inserted, subscription_events) ==
    /\ inserted.plan_version_id = None
    /\ SelectSeq(subscription_events, has_mrr_delta) # << >>

RECURSIVE SumChange(_)
SumChange(logs) ==
    IF logs = << >> THEN 0
    ELSE logs[1].net_mrr_change + SumChange(Tail(logs))

\* The sum taken over the first log only.
mrr_delta_cents_first(logs) ==
    IF logs = << >> THEN 0 ELSE logs[1].net_mrr_change

\* `mrr_logs.iter().map(|l| l.net_mrr_change).sum()`
mrr_delta_cents(logs) == SumChange(logs)

\* SubscriptionRow::update_subscription_mrr_delta
update_subscription_mrr_delta(m, subscription_id, delta) ==
    [m EXCEPT ![subscription_id] = @ + delta]

(***************************************************************************)
(* The database after process_mrr(inserted) on `db`, a record of the       *)
(* tables, with `fail` the statement that fails, if any.  Each statement   *)
(* runs on a plain pooled connection (get_conn), so what ran before the    *)
(* failing statement stays committed.                                      *)
(***************************************************************************)
FailPoints ==
    { "none", "insert", "fetch_events", "insert_movement_log_batch",
      "update_subscription_mrr_delta" }

process_mrr(db, inserted, id, fail) ==
    IF ~moves_mrr(inserted.invoice_type)
    THEN [db EXCEPT !.result = "Ok"]
    ELSE
      LET subscription_events ==
              fetch_by_subscription_id_and_date(inserted.subscription_id,
                                                inserted.invoice_date)
      IN  IF fail = "fetch_events"
          THEN [db EXCEPT !.result = "Err"]
          ELSE IF unwrap_panics(inserted, subscription_events)
          THEN [db EXCEPT !.result = "Panic"]
          ELSE
            LET logs  == mrr_logs(inserted, id, subscription_events)
                delta == mrr_delta_cents(logs)
            IN  IF fail = "insert_movement_log_batch"
                THEN [db EXCEPT !.result = "Err"]
                ELSE IF fail = "update_subscription_mrr_delta"
                THEN [db EXCEPT !.ledger = @ \o logs, !.result = "Err"]
                ELSE [db EXCEPT
                        !.ledger = @ \o logs,
                        !.mrr = update_subscription_mrr_delta(
                                    @, inserted.subscription_id, delta),
                        !.result = "Ok"]

Db == [invoices |-> invoices, ledger |-> ledger, mrr |-> mrr, result |-> "Ok"]

\* Store::insert_invoice on `db`: the row insert, then process_mrr.
insert_invoice_db(db, invoice, fail) ==
    IF fail = "insert"
    THEN [db EXCEPT !.result = "Err"]
    ELSE
      LET id == Len(db.invoices) + 1
      IN  process_mrr([db EXCEPT !.invoices = Append(@, invoice)],
                      invoice, id, fail)

(***************************************************************************)
(* Actions.                                                                *)
(***************************************************************************)
Workers == {1, 2}

Idle == [w \in Workers |-> << >>]

Result(op, result, id, n) == [op |-> op, result |-> result, id |-> id, n |-> n]

insert_invoice(invoice, fail) ==
    /\ LET db == insert_invoice_db(Db, invoice, fail)
       IN  /\ invoices' = db.invoices
           /\ ledger' = db.ledger
           /\ mrr' = db.mrr
           /\ last' = Result("insert_invoice", db.result,
                             IF fail = "insert" THEN 0 ELSE Len(db.invoices), 0)
    /\ UNCHANGED <<events, now, usage, price_job, fin_job>>
    /\ UNCHANGED <<eventbus, issue_job, activated, fee, slot_call, usage_call>>

\* `for inv in &inserted { process_mrr(inv, &mut conn).await?; }` from the
\* i-th invoice of the batch on, whose first row has id `first`; the k-th
\* call meets the failing statement `fail`.  The loop stops at the first
\* call that does not return Ok.
RECURSIVE process_mrr_each(_, _, _, _, _, _)
process_mrr_each(db, inserted, first, i, k, fail) ==
    IF i > Len(inserted) THEN db
    ELSE LET after == process_mrr(db, inserted[i], first + i - 1,
                                  IF i = k THEN fail ELSE "none")
         IN  IF after.result # "Ok" THEN after
             ELSE process_mrr_each(after, inserted, first, i + 1, k, fail)

\* Store::insert_invoice_batch on `db`: InvoiceRow::insert_invoice_batch
\* stores the rows in one statement, then process_mrr runs for each of them
\* on the same plain connection.
insert_invoice_batch_db(db, invoice, k, fail) ==
    IF fail = "insert"
    THEN [db EXCEPT !.result = "Err"]
    ELSE process_mrr_each([db EXCEPT !.invoices = @ \o invoice], invoice,
                          Len(db.invoices) + 1, 1, k, fail)

insert_invoice_batch(invoice, k, fail) ==
    /\ LET db == insert_invoice_batch_db(Db, invoice, k, fail)
       IN  /\ invoices' = db.invoices
           /\ ledger' = db.ledger
           /\ mrr' = db.mrr
           /\ last' = Result("insert_invoice_batch", db.result,
                             IF fail = "insert" THEN 0 ELSE Len(invoices) + 1,
                             Len(invoice))
    /\ UNCHANGED <<events, now, usage, price_job, fin_job>>
    /\ UNCHANGED <<eventbus, issue_job, activated, fee, slot_call, usage_call>>

(***************************************************************************)
(* Insertion and MRR derivation alone, over every kind of new invoice and  *)
(* every failing statement.                                                *)
(***************************************************************************)
MrrInputs ==
    { InvoiceNew("Draft", t, s, d, p) :
        t \in InvoiceType, s \in Subs, d \in Dates, p \in {None, Some(1)} }

InitMrr ==
    /\ invoices = << >>
    /\ ledger = << >>
    /\ mrr = [s \in Subs |-> 0]
    /\ events \in EventLayouts
    /\ now = 0
    /\ usage = 0
    /\ price_job = << >>
    /\ fin_job = Idle
    /\ last = Result("init", "Ok", 0, 0)
    /\ eventbus = {}
    /\ issue_job = << >>
    /\ activated = {}
    /\ fee = << >>
    /\ slot_call = << >>
    /\ usage_call = << >>

\* The invoices of a batch: one type that moves MRR and one that does not.
BatchInputs ==
    { InvoiceNew("Draft", t, s, d, p) :
        t \in {"Recurring", "OneTime"}, s \in Subs, d \in Dates,
        p \in {None, Some(1)} }

\* The batches of n new invoices.
Batches(n) == [1..n -> BatchInputs]

NextMrr ==
    \/ /\ Len(invoices) < MaxInvoices
       /\ \E invoice \in MrrInputs, fail \in FailPoints :
             insert_invoice(invoice, fail)
    \/ \E n \in 1..(MaxInvoices - Len(invoices)) :
         \E invoice \in Batches(n), k \in 1..n, fail \in FailPoints :
             insert_invoice_batch(invoice, k, fail)

SpecMrr == InitMrr /\ [][NextMrr]_vars

(***************************************************************************)
(* The invoice lifecycle.  The queries behind the repository's lifecycle   *)
(* methods (InvoiceRow::update_lines, finalize, list_outdated,             *)
(* list_to_finalize, update_pending_finalization) and the workers that     *)
(* call them follow the design document.                                   *)
(***************************************************************************)
LookBack == 1
GracePeriod == 1

UsageValues == {49, 149}

\* The pricing engine: the ordered line items of one invoice, a fixed
\* capacity line and a usage line, from what the usage source reports.
compute_invoice_lines(invoice, units) ==
    << [ name |-> "capacity", quantity |-> 1, total |-> 1200,
         start_date |-> invoice.invoice_date ],
       [ name |-> "usage", quantity |-> units, total |-> units * 5,
         start_date |-> invoice.invoice_date - 1 ] >>

\* Line items written behind the stored ones.
update_lines_appending(invs, id, lines, t) ==
    [invs EXCEPT ![id] =
        IF @.status # "Finalized"
        THEN [@ EXCEPT !.line_items = @ \o lines, !.data_updated_at = Some(t)]
        ELSE @]

\* Line items written whatever the row's status, the row reopened as Draft.
update_lines_reopening(invs, id, lines, t) ==
    [invs EXCEPT ![id] =
        [@ EXCEPT !.status = "Draft", !.line_items = lines,
                  !.data_updated_at = Some(t)]]

\* Line items written whatever the row's status.
update_lines_any_status(invs, id, lines, t) ==
    [invs EXCEPT ![id] =
        [@ EXCEPT !.line_items = lines, !.data_updated_at = Some(t)]]

\* InvoiceRow::update_lines: the row's line items are replaced, unless the
\* invoice is Finalized (its line items are frozen).
update_lines(invs, id, lines, t) ==
    [invs EXCEPT ![id] =
        IF @.status # "Finalized"
        THEN [@ EXCEPT !.line_items = lines, !.data_updated_at = Some(t)]
        ELSE @]

\* InvoiceRow::finalize: a conditional update, applied only to a row that is
\* not Finalized yet.
finalize(invs, id, lines, t) ==
    [invs EXCEPT ![id] =
        IF @.status # "Finalized"
        THEN [@ EXCEPT !.status = "Finalized", !.line_items = lines,
                       !.data_updated_at = Some(t), !.finalized_at = Some(t)]
        ELSE @]

\* The rows an update changed.
rows_affected(before, after) ==
    Cardinality({i \in 1..Len(before) : before[i] # after[i]})

\* What eventbus.publish can return.
PublishOutcomes == {"Ok", "Err"}

\* eventbus.publish(Event::invoice_finalized(id, tenant_id)): the event is on
\* the bus if the publish succeeded.
publish(bus, id, outcome) == IF outcome = "Ok" THEN bus \cup {id} ELSE bus

\* finalize_invoice failing when the update matched no row.
finalize_invoice_result_strict(rows, published) ==
    IF rows = 0 THEN "Err" ELSE "Ok"

\* finalize_invoice failing when the publish failed.
finalize_invoice_result_publish_checked(rows, published) ==
    IF published = "Err" THEN "Err" ELSE "Ok"

\* finalize_invoice: `let _ = InvoiceRow::finalize(..)?;
\* let _ = self.eventbus.publish(..).await; Ok(())`: the number of rows
\* updated and the outcome of the publish are both dropped.
finalize_invoice_result(rows, published) == "Ok"

grace_passed(invoice, t) == invoice.invoice_date + GracePeriod <= t

\* An invoice fully ready to finalize: open, priced, its period closed.
ready_to_finalize(invoice, t) ==
    /\ invoice.status \in {"Draft", "PendingFinalization"}
    /\ grace_passed(invoice, t)
    /\ invoice.data_updated_at # None

\* InvoiceRow::list_outdated: the Draft invoices dated today or before.
list_outdated(invs, t) ==
    {i \in 1..Len(invs) :
        invs[i].status = "Draft" /\ invs[i].invoice_date <= t}

\* list_to_finalize passing over the invoices marked PendingFinalization.
list_to_finalize_draft_only(invs, t) ==
    {i \in 1..Len(invs) :
        invs[i].status = "Draft" /\ grace_passed(invs[i], t)
        /\ invs[i].data_updated_at # None}

\* InvoiceRow::list_to_finalize
list_to_finalize(invs, t) ==
    {i \in 1..Len(invs) : ready_to_finalize(invs[i], t)}

\* update_pending_finalization without the exclusion of the invoices that
\* are ready to finalize.
update_pending_finalization_all_due(invs, t) ==
    [i \in 1..Len(invs) |->
        IF invs[i].status = "Draft" /\ grace_passed(invs[i], t)
        THEN [invs[i] EXCEPT !.status = "PendingFinalization"]
        ELSE invs[i]]

\* InvoiceRow::update_pending_finalization
update_pending_finalization(invs, t) ==
    [i \in 1..Len(invs) |->
        IF /\ invs[i].status = "Draft"
           /\ grace_passed(invs[i], t)
           /\ ~ready_to_finalize(invs[i], t)
        THEN [invs[i] EXCEPT !.status = "PendingFinalization"]
        ELSE invs[i]]

has_invoice(invs, s, d) ==
    \E i \in 1..Len(invs) :
        invs[i].subscription_id = s /\ invs[i].invoice_date = d

\* The subscriptions that are active.
active_subscriptions == {1}

\* The draft worker's candidates with the existing-invoice check left out.
draft_candidates_unchecked(invs, today) ==
    {c \in active_subscriptions \X Dates :
        c[2] <= today /\ today - c[2] <= LookBack}

\* The (subscription, period) pairs the draft worker bills: the period
\* starts within the look-back window and has no invoice yet.
draft_candidates(invs, today) ==
    {c \in active_subscriptions \X Dates :
        /\ c[2] <= today
        /\ today - c[2] <= LookBack
        /\ ~has_invoice(invs, c[1], c[2])}

\* The candidates in the order the worker inserts them.
RECURSIVE in_order(_)
in_order(cands) ==
    IF cands = {} THEN << >>
    ELSE LET c == CHOOSE x \in cands :
                    \A y \in cands : x[1] < y[1] \/ (x[1] = y[1] /\ x[2] <= y[2])
         IN  <<c>> \o in_order(cands \ {c})

RECURSIVE insert_drafts(_, _)
insert_drafts(db, todo) ==
    IF todo = << >> THEN db
    ELSE insert_drafts(
            insert_invoice_db(db,
                InvoiceNew("Draft", "Recurring", todo[1][1], todo[1][2], Some(1)),
                "none"),
            Tail(todo))

\* The database after one run of the draft worker on `db`.
draft_run(db, today) ==
    insert_drafts(db, in_order(draft_candidates(db.invoices, today)))

\* One run of the draft worker.
draft_worker ==
    /\ LET db == draft_run(Db, now)
       IN  /\ invoices' = db.invoices
           /\ ledger' = db.ledger
           /\ mrr' = db.mrr
           /\ last' = Result("draft_worker", db.result, 0,
                             Len(db.invoices) - Len(invoices))
    /\ UNCHANGED <<events, now, usage, price_job, fin_job>>
    /\ UNCHANGED <<eventbus, issue_job, activated, fee, slot_call, usage_call>>

\* The price worker lists a Draft invoice and prices it.
price_worker_list ==
    /\ price_job = None
    /\ \E id \in list_outdated(invoices, now) :
          price_job' = Some([id |-> id,
                             lines |-> compute_invoice_lines(invoices[id], usage)])
    /\ UNCHANGED <<invoices, ledger, mrr, events, now, usage, fin_job, last>>
    /\ UNCHANGED <<eventbus, issue_job, activated, fee, slot_call, usage_call>>

\* Store::update_invoice_lines, called by the price worker with what it
\* computed from the row it listed.
update_invoice_lines ==
    /\ price_job # None
    /\ LET job == price_job[1]
           after == update_lines(invoices, job.id, job.lines, now)
       IN  /\ invoices' = after
           /\ last' = Result("update_invoice_lines", "Ok", job.id,
                             rows_affected(invoices, after))
    /\ price_job' = None
    /\ UNCHANGED <<ledger, mrr, events, now, usage, fin_job>>
    /\ UNCHANGED <<eventbus, issue_job, activated, fee, slot_call, usage_call>>

\* A finalize-worker run lists an invoice to finalize and prices it anew.
finalize_worker_list(w) ==
    /\ fin_job[w] = None
    /\ \E id \in list_to_finalize(invoices, now) :
          fin_job' = [fin_job EXCEPT ![w] =
              Some([id |-> id,
                    lines |-> compute_invoice_lines(invoices[id], usage)])]
    /\ UNCHANGED <<invoices, ledger, mrr, events, now, usage, price_job, last>>
    /\ UNCHANGED <<eventbus, issue_job, activated, fee, slot_call, usage_call>>

\* Store::finalize_invoice, called by finalize-worker run w.
finalize_invoice(w) ==
    /\ fin_job[w] # None
    /\ \E published \in PublishOutcomes :
          LET job == fin_job[w][1]
              after == finalize(invoices, job.id, job.lines, now)
              rows == rows_affected(invoices, after)
          IN  /\ invoices' = after
              /\ eventbus' = publish(eventbus, job.id, published)
              /\ last' = Result("finalize_invoice",
                                finalize_invoice_result(rows, published),
                                job.id, rows)
    /\ fin_job' = [fin_job EXCEPT ![w] = None]
    /\ UNCHANGED <<ledger, mrr, events, now, usage, price_job>>
    /\ UNCHANGED <<issue_job, activated, fee, slot_call, usage_call>>

\* Store::update_pending_finalization_invoices(now)
update_pending_finalization_invoices ==
    /\ LET after == update_pending_finalization(invoices, now)
       IN  /\ invoices' = after
           /\ last' = Result("update_pending_finalization_invoices", "Ok", 0,
                             rows_affected(invoices, after))
    /\ UNCHANGED <<ledger, mrr, events, now, usage, price_job, fin_job>>
    /\ UNCHANGED <<eventbus, issue_job, activated, fee, slot_call, usage_call>>

Tick ==
    /\ now < MaxTime
    /\ now' = now + 1
    /\ UNCHANGED <<invoices, ledger, mrr, events, usage, price_job, fin_job, last>>
    /\ UNCHANGED <<eventbus, issue_job, activated, fee, slot_call, usage_call>>

\* The usage source reports a larger total (usage recorded late).
usage_change ==
    /\ \E u \in UsageValues : u > usage /\ usage' = u
    /\ UNCHANGED <<invoices, ledger, mrr, events, now, price_job, fin_job, last>>
    /\ UNCHANGED <<eventbus, issue_job, activated, fee, slot_call, usage_call>>

LifeInputs ==
    { InvoiceNew(st, "Recurring", 1, d, Some(1)) :
        st \in {"Draft", "Finalized"}, d \in Dates }

InitLife ==
    /\ invoices = << >>
    /\ ledger = << >>
    /\ mrr = [s \in Subs |-> 0]
    /\ events = [c \in Subs \X Dates |->
                    IF c = <<1, 1>> THEN << Ev("Cancelled", Some(-5000)) >>
                    ELSE << >>]
    /\ now = 1
    /\ usage = 49
    /\ price_job = None
    /\ fin_job = Idle
    /\ last = Result("init", "Ok", 0, 0)
    /\ eventbus = {}
    /\ issue_job = << >>
    /\ activated = {}
    /\ fee = << >>
    /\ slot_call = << >>
    /\ usage_call = << >>

\* The table holds at most MaxLifecycleInvoices rows.
Room(n) == Len(invoices) + n <= MaxLifecycleInvoices

NextLife ==
    \/ Room(1) /\ \E invoice \in LifeInputs : insert_invoice(invoice, "none")
    \/ Room(Cardinality(draft_candidates(invoices, now))) /\ draft_worker
    \/ price_worker_list
    \/ update_invoice_lines
    \/ \E w \in Workers : finalize_worker_list(w)
    \/ \E w \in Workers : finalize_invoice(w)
    \/ update_pending_finalization_invoices
    \/ usage_change
    \/ Tick

SpecLife == InitLife /\ [][NextLife]_vars

(***************************************************************************)
(* Issuance and the provider-side status.  The queries behind the          *)
(* repository methods (InvoiceRow::list_to_issue, issue_success,           *)
(* issue_error, update_external_status, find_by_id,                        *)
(* SubscriptionRow::activate_subscription) and the issue worker that calls *)
(* them follow the design document.                                        *)
(***************************************************************************)

\* The max_attempts the issue worker passes to list_invoices_to_issue.
MaxAttempts == 2

\* What a failed issuance reports.
IssueErrors == {"provider unavailable", "invoice rejected"}

InvoiceExternalStatusEnum == {"Paid", "Void"}

\* InvoiceRow::list_to_issue with the bound on the attempts left out.
list_to_issue_unbounded(invs, max_attempts) ==
    {i \in 1..Len(invs) : invs[i].status = "Finalized" /\ ~invs[i].issued}

\* InvoiceRow::list_to_issue: the Finalized invoices not issued yet that
\* have been attempted fewer than max_attempts times.
list_to_issue(invs, max_attempts) ==
    {i \in 1..Len(invs) :
        /\ invs[i].status = "Finalized"
        /\ ~invs[i].issued
        /\ invs[i].issue_attempts < max_attempts}

\* Issuance marked with the attempts counted anew.
issue_success_resetting(invs, id, t) ==
    [invs EXCEPT ![id] = [@ EXCEPT !.issued = TRUE, !.issue_attempts = 0]]

\* InvoiceRow::issue_success
issue_success(invs, id, t) ==
    [invs EXCEPT ![id] = [@ EXCEPT !.issued = TRUE]]

\* A failed attempt recorded without the time of the attempt.
issue_error_untimed(invs, id, last_issue_error, t) ==
    [invs EXCEPT ![id] =
        [@ EXCEPT !.issue_attempts = @ + 1,
                  !.last_issue_error = Some(last_issue_error)]]

\* InvoiceRow::issue_error
issue_error(invs, id, last_issue_error, t) ==
    [invs EXCEPT ![id] =
        [@ EXCEPT !.issue_attempts = @ + 1,
                  !.last_issue_error = Some(last_issue_error),
                  !.last_issue_attempt_at = Some(t)]]

\* InvoiceRow::update_external_status
update_external_status(invs, id, external_status) ==
    [invs EXCEPT ![id] = [@ EXCEPT !.external_status = Some(external_status)]]

\* SubscriptionRow::activate_subscription
activate_subscription(subs, subscription_id) == subs \cup {subscription_id}

\* The issue worker lists an invoice to issue and calls the provider.
issue_worker_list ==
    /\ issue_job = None
    /\ \E id \in list_to_issue(invoices, MaxAttempts) : issue_job' = Some(id)
    /\ UNCHANGED <<invoices, ledger, mrr, events, now, usage, price_job,
                   fin_job, last, eventbus, activated, fee, slot_call, usage_call>>

\* Store::invoice_issue_success, called by the issue worker once the
\* provider has accepted the invoice.
invoice_issue_success ==
    /\ issue_job # None
    /\ LET id == issue_job[1]
           after == issue_success(invoices, id, now)
       IN  /\ invoices' = after
           /\ last' = Result("invoice_issue_success", "Ok", id,
                             rows_affected(invoices, after))
    /\ issue_job' = None
    /\ UNCHANGED <<ledger, mrr, events, now, usage, price_job, fin_job,
                   eventbus, activated, fee, slot_call, usage_call>>

\* Store::invoice_issue_error, called by the issue worker once the
\* provider has failed.
invoice_issue_error(last_issue_error) ==
    /\ issue_job # None
    /\ LET id == issue_job[1]
           after == issue_error(invoices, id, last_issue_error, now)
       IN  /\ invoices' = after
           /\ last' = Result("invoice_issue_error", "Ok", id,
                             rows_affected(invoices, after))
    /\ issue_job' = None
    /\ UNCHANGED <<ledger, mrr, events, now, usage, price_job, fin_job,
                   eventbus, activated, fee, slot_call, usage_call>>

\* The statement of update_invoice_external_status that fails, if any.
ExternalFailPoints ==
    {"none", "update_external_status", "find_by_id", "activate_subscription"}

\* update_invoice_external_status on a plain connection: each statement
\* commits on its own, so the status written before a failing lookup or
\* activation stays.
update_invoice_external_status_unscoped(invoice_id, external_status, fail) ==
    /\ LET paid == external_status = "Paid"
           after == update_external_status(invoices, invoice_id, external_status)
       IN  IF fail = "update_external_status"
           THEN /\ UNCHANGED <<invoices, activated>>
                /\ last' = Result("update_invoice_external_status", "Err",
                                  invoice_id, 0)
           ELSE IF paid /\ fail \in {"find_by_id", "activate_subscription"}
           THEN /\ invoices' = after
                /\ UNCHANGED activated
                /\ last' = Result("update_invoice_external_status", "Err",
                                  invoice_id, 0)
           ELSE /\ invoices' = after
                /\ activated' =
                      IF paid
                      THEN activate_subscription(
                              activated, after[invoice_id].subscription_id)
                      ELSE activated
                /\ last' = Result("update_invoice_external_status", "Ok",
                                  invoice_id, rows_affected(invoices, after))
    /\ UNCHANGED <<ledger, mrr, events, now, usage, price_job, fin_job,
                   eventbus, issue_job, fee, slot_call, usage_call>>

\* Store::update_invoice_external_status: one transaction; a statement that
\* fails rolls back the statements before it.
update_invoice_external_status(invoice_id, external_status, fail) ==
    /\ LET paid == external_status = "Paid"
           failed == \/ fail = "update_external_status"
                     \/ paid /\ fail \in {"find_by_id", "activate_subscription"}
           after == update_external_status(invoices, invoice_id, external_status)
       IN  IF failed
           THEN /\ UNCHANGED <<invoices, activated>>
                /\ last' = Result("update_invoice_external_status", "Err",
                                  invoice_id, 0)
           ELSE /\ invoices' = after
                /\ activated' =
                      IF paid
                      THEN activate_subscription(
                              activated, after[invoice_id].subscription_id)
                      ELSE activated
                /\ last' = Result("update_invoice_external_status", "Ok",
                                  invoice_id, rows_affected(invoices, after))
    /\ UNCHANGED <<ledger, mrr, events, now, usage, price_job, fin_job,
                   eventbus, issue_job, fee, slot_call, usage_call>>

\* An InvoiceNew with the issuance fields the caller chose.
InvoiceNewIssuance(status, issued, issue_attempts, finalized_at) ==
    [InvoiceNew(status, "Recurring", 1, 1, Some(1)) EXCEPT
        !.issued = issued,
        !.issue_attempts = issue_attempts,
        !.finalized_at = finalized_at]

IssueInputs ==
    { InvoiceNewIssuance(st, iss, att, fin) :
        st \in {"Draft", "Finalized"}, iss \in BOOLEAN,
        att \in {0}, fin \in {None, Some(0)} }

\* Issuance on one day, the invoices dated 1 past their grace period.  The
\* provider reports a status only for an invoice that was issued to it.
InitIssue ==
    /\ invoices = << >>
    /\ ledger = << >>
    /\ mrr = [s \in Subs |-> 0]
    /\ events = [c \in Subs \X Dates |-> << >>]
    /\ now = 2
    /\ usage = 49
    /\ price_job = None
    /\ fin_job = Idle
    /\ last = Result("init", "Ok", 0, 0)
    /\ eventbus = {}
    /\ issue_job = None
    /\ activated = {}
    /\ fee = << >>
    /\ slot_call = << >>
    /\ usage_call = << >>

NextIssue ==
    \/ Room(1) /\ \E invoice \in IssueInputs : insert_invoice(invoice, "none")
    \/ price_worker_list
    \/ update_invoice_lines
    \/ finalize_worker_list(1)
    \/ finalize_invoice(1)
    \/ update_pending_finalization_invoices
    \/ issue_worker_list
    \/ invoice_issue_success
    \/ \E e \in IssueErrors : invoice_issue_error(e)
    \/ \E id \in 1..Len(invoices), st \in InvoiceExternalStatusEnum,
          fail \in ExternalFailPoints :
            invoices[id].issued /\ update_invoice_external_status(id, st, fail)

SpecIssue == InitIssue /\ [][NextIssue]_vars

(***************************************************************************)
(* The fee model (domain/price_components.rs): FeeType and its resolution  *)
(* into a billing period and a SubscriptionFee.  Decimal prices are        *)
(* integers (minor units); a Result is a record tagged "Ok" or with the    *)
(* StoreError variant.                                                     *)
(***************************************************************************)
BillingPeriodEnum == {"Monthly", "Quarterly", "Annual"}

\* BillingPeriodEnum::as_subscription_billing_period
as_subscription_billing_period(term) ==
    CASE term = "Monthly"   -> "Monthly"
      [] term = "Quarterly" -> "Quarterly"
      [] term = "Annual"    -> "Annual"

TermRate(term, price) == [term |-> term, price |-> price]

CapacityThreshold(included_amount, price, per_unit_overage) ==
    [ included_amount |-> included_amount, price |-> price,
      per_unit_overage |-> per_unit_overage ]

Ok(period, subscription_fee) ==
    [tag |-> "Ok", period |-> period, fee |-> subscription_fee]

InvalidArgument(message) == [tag |-> "InvalidArgument", message |-> message]

\* Option::unwrap_or
unwrap_or(opt, default) == IF opt = None THEN default ELSE opt[1]

\* `rates.iter().find(|r| &r.term == billing_period)`: the first rate of
\* that term.
find_rate(rates, billing_period) ==
    LET found == {k \in 1..Len(rates) : rates[k].term = billing_period}
    IN  IF found = {} THEN None
        ELSE Some(rates[CHOOSE k \in found : \A j \in found : k <= j])

\* The lookup taking the first threshold that covers the committed capacity.
find_threshold_covering(thresholds, committed_capacity) ==
    LET found == {k \in 1..Len(thresholds) :
                    thresholds[k].included_amount >= committed_capacity}
    IN  IF found = {} THEN None
        ELSE Some(thresholds[CHOOSE k \in found : \A j \in found : k <= j])

\* `thresholds.iter().find(|t| t.included_amount == committed_capacity)`
find_threshold(thresholds, committed_capacity) ==
    LET found == {k \in 1..Len(thresholds) :
                    thresholds[k].included_amount = committed_capacity}
    IN  IF found = {} THEN None
        ELSE Some(thresholds[CHOOSE k \in found : \A j \in found : k <= j])

\* The resolution taking the first rate or threshold when there are several.
to_subscription_fee_first_entry(f) ==
    CASE f.kind = "Rate" ->
            IF Len(f.rates) = 0
            THEN InvalidArgument("Expected a single rate or a parametrized component")
            ELSE Ok(as_subscription_billing_period(f.rates[1].term),
                    [kind |-> "Rate", rate |-> f.rates[1].price])
      [] f.kind = "Slot" ->
            IF Len(f.rates) = 0
            THEN InvalidArgument("Expected a single rate or a parametrized component")
            ELSE Ok(as_subscription_billing_period(f.rates[1].term),
                    [ kind          |-> "Slot",
                      unit          |-> f.slot_unit_name,
                      unit_rate     |-> f.rates[1].price,
                      min_slots     |-> f.minimum_count,
                      max_slots     |-> f.quota,
                      initial_slots |-> unwrap_or(f.minimum_count, 0) ])
      [] f.kind = "Capacity" ->
            IF Len(f.thresholds) = 0
            THEN InvalidArgument("Expected either a single threshold or a parametrized component")
            ELSE Ok("Monthly",
                    [ kind         |-> "Capacity",
                      metric_id    |-> f.metric_id,
                      overage_rate |-> f.thresholds[1].per_unit_overage,
                      included     |-> f.thresholds[1].included_amount,
                      rate         |-> f.thresholds[1].price ])
      [] f.kind = "OneTime" ->
            Ok("OneTime",
               [kind |-> "OneTime", rate |-> f.unit_price, quantity |-> f.quantity])
      [] f.kind = "Usage" ->
            Ok("Monthly",
               [kind |-> "Usage", metric_id |-> f.metric_id, model |-> f.pricing])
      [] f.kind = "ExtraRecurring" ->
            Ok(as_subscription_billing_period(f.cadence),
               [ kind |-> "Recurring", rate |-> f.unit_price,
                 quantity |-> f.quantity, billing_type |-> f.billing_type ])

\* FeeType::to_subscription_fee
to_subscription_fee(f) ==
    CASE f.kind = "Rate" ->
            IF Len(f.rates) # 1
            THEN InvalidArgument("Expected a single rate or a parametrized component")
            ELSE Ok(as_subscription_billing_period(f.rates[1].term),
                    [kind |-> "Rate", rate |-> f.rates[1].price])
      [] f.kind = "Slot" ->
            IF Len(f.rates) # 1
            THEN InvalidArgument("Expected a single rate or a parametrized component")
            ELSE Ok(as_subscription_billing_period(f.rates[1].term),
                    [ kind          |-> "Slot",
                      unit          |-> f.slot_unit_name,
                      unit_rate     |-> f.rates[1].price,
                      min_slots     |-> f.minimum_count,
                      max_slots     |-> f.quota,
                      initial_slots |-> unwrap_or(f.minimum_count, 0) ])
      [] f.kind = "Capacity" ->
            IF Len(f.thresholds) # 1
            THEN InvalidArgument("Expected either a single threshold or a parametrized component")
            ELSE Ok("Monthly",
                    [ kind         |-> "Capacity",
                      metric_id    |-> f.metric_id,
                      overage_rate |-> f.thresholds[1].per_unit_overage,
                      included     |-> f.thresholds[1].included_amount,
                      rate         |-> f.thresholds[1].price ])
      [] f.kind = "OneTime" ->
            Ok("OneTime",
               [kind |-> "OneTime", rate |-> f.unit_price, quantity |-> f.quantity])
      [] f.kind = "Usage" ->
            Ok("Monthly",
               [kind |-> "Usage", metric_id |-> f.metric_id, model |-> f.pricing])
      [] f.kind = "ExtraRecurring" ->
            Ok(as_subscription_billing_period(f.cadence),
               [ kind |-> "Recurring", rate |-> f.unit_price,
                 quantity |-> f.quantity, billing_type |-> f.billing_type ])

\* The Rate arm with the test of the other parameters left out.
rate_fee_parameterized_unchecked(f, initial_slot_count, billing_period, committed_capacity) ==
    IF billing_period # None
    THEN LET rate == find_rate(f.rates, billing_period[1])
         IN  IF rate = None
             THEN InvalidArgument("Rate not found for billing period")
             ELSE Ok(as_subscription_billing_period(billing_period[1]),
                     [kind |-> "Rate", rate |-> rate[1].price])
    ELSE IF Len(f.rates) # 1
         THEN InvalidArgument("Expected a single rate")
         ELSE Ok(as_subscription_billing_period(f.rates[1].term),
                 [kind |-> "Rate", rate |-> f.rates[1].price])

\* to_subscription_fee_parameterized, the FeeType::Rate arm.
rate_fee_parameterized(f, initial_slot_count, billing_period, committed_capacity) ==
    IF initial_slot_count # None \/ committed_capacity # None
    THEN InvalidArgument("Unexpected parameters for rate fee")
    ELSE IF billing_period # None
    THEN LET rate == find_rate(f.rates, billing_period[1])
         IN  IF rate = None
             THEN InvalidArgument("Rate not found for billing period")
             ELSE Ok(as_subscription_billing_period(billing_period[1]),
                     [kind |-> "Rate", rate |-> rate[1].price])
    ELSE IF Len(f.rates) # 1
         THEN InvalidArgument("Expected a single rate")
         ELSE Ok(as_subscription_billing_period(f.rates[1].term),
                 [kind |-> "Rate", rate |-> f.rates[1].price])

\* The initial slots with the contractual minimum left out.
initial_slots_ignoring_minimum(initial_slot_count, minimum_count) ==
    unwrap_or(initial_slot_count, 0)

\* `initial_slot_count.unwrap_or_else(|| minimum_count.unwrap_or(0))`
initial_slots(initial_slot_count, minimum_count) ==
    unwrap_or(initial_slot_count, unwrap_or(minimum_count, 0))

\* The Slot arm with the test of the committed capacity left out.
slot_fee_parameterized_capacity_allowed(f, initial_slot_count, billing_period, committed_capacity) ==
    IF billing_period = None
    THEN InvalidArgument("Missing billing period")
    ELSE LET rate == find_rate(f.rates, billing_period[1])
         IN  IF rate = None
             THEN InvalidArgument("Rate not found for billing period")
             ELSE Ok(as_subscription_billing_period(billing_period[1]),
                     [ kind          |-> "Slot",
                       unit          |-> f.slot_unit_name,
                       unit_rate     |-> rate[1].price,
                       min_slots     |-> f.minimum_count,
                       max_slots     |-> f.quota,
                       initial_slots |->
                           initial_slots(initial_slot_count, f.minimum_count) ])

\* to_subscription_fee_parameterized, the FeeType::Slot arm.
slot_fee_parameterized(f, initial_slot_count, billing_period, committed_capacity) ==
    IF billing_period = None
    THEN InvalidArgument("Missing billing period")
    ELSE LET rate == find_rate(f.rates, billing_period[1])
         IN  IF rate = None
             THEN InvalidArgument("Rate not found for billing period")
             ELSE IF committed_capacity # None
             THEN InvalidArgument("Unexpected committed capacity for slot fee")
             ELSE Ok(as_subscription_billing_period(billing_period[1]),
                     [ kind          |-> "Slot",
                       unit          |-> f.slot_unit_name,
                       unit_rate     |-> rate[1].price,
                       min_slots     |-> f.minimum_count,
                       max_slots     |-> f.quota,
                       initial_slots |->
                           initial_slots(initial_slot_count, f.minimum_count) ])

\* The Capacity arm with the test of the other parameters left out.
capacity_fee_parameterized_lenient(f, initial_slot_count, billing_period, committed_capacity) ==
    IF committed_capacity = None
    THEN InvalidArgument("Missing committed capacity")
    ELSE LET threshold == find_threshold(f.thresholds, committed_capacity[1])
         IN  IF threshold = None
             THEN InvalidArgument("Threshold not found for committed capacity")
             ELSE Ok("Monthly",
                     [ kind         |-> "Capacity",
                       metric_id    |-> f.metric_id,
                       overage_rate |-> threshold[1].per_unit_overage,
                       included     |-> threshold[1].included_amount,
                       rate         |-> threshold[1].price ])

\* to_subscription_fee_parameterized, the FeeType::Capacity arm.
capacity_fee_parameterized(f, initial_slot_count, billing_period, committed_capacity) ==
    IF committed_capacity = None
    THEN InvalidArgument("Missing committed capacity")
    ELSE LET threshold == find_threshold(f.thresholds, committed_capacity[1])
         IN  IF threshold = None
             THEN InvalidArgument("Threshold not found for committed capacity")
             ELSE IF billing_period # None \/ initial_slot_count # None
             THEN InvalidArgument("Unexpected parameters for capacity fee")
             ELSE Ok("Monthly",
                     [ kind         |-> "Capacity",
                       metric_id    |-> f.metric_id,
                       overage_rate |-> threshold[1].per_unit_overage,
                       included     |-> threshold[1].included_amount,
                       rate         |-> threshold[1].price ])

\* The resolution falling back to the plain one for the fee types that take
\* no parameters.
to_subscription_fee_parameterized_falling_back(f, initial_slot_count, billing_period, committed_capacity) ==
    CASE f.kind = "Rate" ->
            rate_fee_parameterized(f, initial_slot_count, billing_period,
                                   committed_capacity)
      [] f.kind = "Slot" ->
            slot_fee_parameterized(f, initial_slot_count, billing_period,
                                   committed_capacity)
      [] f.kind = "Capacity" ->
            capacity_fee_parameterized(f, initial_slot_count, billing_period,
                                       committed_capacity)
      [] f.kind \in {"Usage", "ExtraRecurring", "OneTime"} ->
            to_subscription_fee(f)

\* FeeType::to_subscription_fee_parameterized
to_subscription_fee_parameterized(f, initial_slot_count, billing_period, committed_capacity) ==
    CASE f.kind = "Rate" ->
            rate_fee_parameterized(f, initial_slot_count, billing_period,
                                   committed_capacity)
      [] f.kind = "Slot" ->
            slot_fee_parameterized(f, initial_slot_count, billing_period,
                                   committed_capacity)
      [] f.kind = "Capacity" ->
            capacity_fee_parameterized(f, initial_slot_count, billing_period,
                                       committed_capacity)
      [] f.kind \in {"Usage", "ExtraRecurring", "OneTime"} ->
            InvalidArgument("Cannot parameterize fee type")

(***************************************************************************)
(* Fee resolution alone, over every kind of fee and every combination of   *)
(* parameters.  The k-th rate of a fee costs 1000 * k and the k-th         *)
(* threshold 1200 * k, so that the entry a resolution picked can be told   *)
(* from its price; two entries of one fee may carry the same term or the   *)
(* same included amount.                                                   *)
(***************************************************************************)
SeqsUpTo(S, n) == UNION {[1..k -> S] : k \in 0..n}

RateLists ==
    { [k \in 1..Len(terms) |-> TermRate(terms[k], 1000 * k)] :
        terms \in SeqsUpTo({"Monthly", "Annual"}, MaxFeeEntries) }

ThresholdLists ==
    { [k \in 1..Len(amounts) |-> CapacityThreshold(amounts[k], 1200 * k, 5 * k)] :
        amounts \in SeqsUpTo({100, 1000}, MaxFeeEntries) }

FeeTypes ==
    { [kind |-> "Rate", rates |-> rates] : rates \in RateLists }
    \cup { [ kind |-> "Slot", rates |-> rates, slot_unit_name |-> "seat",
             minimum_count |-> minimum_count, quota |-> quota ] :
             rates \in RateLists, minimum_count \in {None, Some(2)},
             quota \in {None, Some(5)} }
    \cup { [kind |-> "Capacity", metric_id |-> 1, thresholds |-> thresholds] :
             thresholds \in ThresholdLists }
    \cup { [kind |-> "Usage", metric_id |-> 1, pricing |-> "PerUnit"],
           [ kind |-> "ExtraRecurring", unit_price |-> 700, quantity |-> 2,
             billing_type |-> "Advance", cadence |-> "Annual" ],
           [kind |-> "OneTime", unit_price |-> 900, quantity |-> 1] }

FeeCalls ==
    [ fee                : FeeTypes,
      initial_slot_count : {None, Some(1), Some(3), Some(7)},
      billing_period     : {None} \cup {Some(t) : t \in BillingPeriodEnum},
      committed_capacity : {None, Some(100), Some(500)},
      op                 : {"none"},
      result             : {None} ]

\* A caller resolves the fee without parameters.
call_to_subscription_fee ==
    /\ fee.op = "none"
    /\ fee' = [fee EXCEPT !.op = "to_subscription_fee",
                          !.result = Some(to_subscription_fee(fee.fee))]
    /\ UNCHANGED <<invoices, ledger, mrr, events, now, usage, price_job,
                   fin_job, last, eventbus, issue_job, activated,
                   slot_call, usage_call>>

\* A caller resolves the fee with the parameters of its subscription.
call_to_subscription_fee_parameterized ==
    /\ fee.op = "none"
    /\ fee' = [fee EXCEPT
                 !.op = "to_subscription_fee_parameterized",
                 !.result = Some(to_subscription_fee_parameterized(
                                fee.fee, fee.initial_slot_count,
                                fee.billing_period, fee.committed_capacity))]
    /\ UNCHANGED <<invoices, ledger, mrr, events, now, usage, price_job,
                   fin_job, last, eventbus, issue_job, activated,
                   slot_call, usage_call>>

InitFee ==
    /\ invoices = << >>
    /\ ledger = << >>
    /\ mrr = [s \in Subs |-> 0]
    /\ events = [c \in Subs \X Dates |-> << >>]
    /\ now = 0
    /\ usage = 0
    /\ price_job = None
    /\ fin_job = Idle
    /\ last = Result("init", "Ok", 0, 0)
    /\ eventbus = {}
    /\ issue_job = None
    /\ activated = {}
    /\ fee \in FeeCalls
    /\ slot_call = << >>
    /\ usage_call = << >>

NextFee ==
    \/ call_to_subscription_fee
    \/ call_to_subscription_fee_parameterized

SpecFee == InitFee /\ [][NextFee]_vars

(***************************************************************************)
(* The slot clients (compute/clients/slots.rs).  The store-backed client   *)
(* asks the subscription repository for the current slots value; what that *)
(* query returns is an input.  The mock client reads a HashMap keyed by    *)
(* (component, date): a function on the keys it holds.                     *)
(***************************************************************************)
Components == {1, 2}

SlotValues == {0, 3}

OkSlots(value) == [tag |-> "Ok", value |-> value]

\* What Store::get_current_slots_value returns: a value or a StoreError.
SlotQueryOutcomes ==
    {OkSlots(v) : v \in SlotValues}
    \cup {[tag |-> "Err", error |-> e] : e \in {"DatabaseError", "ValueNotFound"}}

\* The lookup answering a failed query with zero slots.
fetch_slots_defaulting(res) ==
    IF res.tag = "Ok" THEN OkSlots(res.value) ELSE OkSlots(0)

\* `impl SlotClient for Store`: `.map_err(|_e| ComputeError::InternalError)?`
\* and then `Ok(res)`.
fetch_slots(res) ==
    IF res.tag = "Ok" THEN OkSlots(res.value) ELSE [tag |-> "InternalError"]

\* `impl SlotClient for MockSlotClient`: `Some(v) => Ok(*v)`, `None => Ok(0)`.
mock_fetch_slots(data, component_id, invoice_date) ==
    IF <<component_id, invoice_date>> \in DOMAIN data
    THEN OkSlots(data[<<component_id, invoice_date>>])
    ELSE OkSlots(0)

\* The contents of a MockSlotClient.
MockData ==
    UNION {[keys -> SlotValues] : keys \in SUBSET (Components \X Dates)}

SlotCalls ==
    [ client       : {"Store"},
      data         : {<< >>},
      outcome      : SlotQueryOutcomes,
      component_id : Components,
      invoice_date : Dates,
      op           : {"none"},
      result       : {None} ]
    \cup
    [ client       : {"MockSlotClient"},
      data         : MockData,
      outcome      : {OkSlots(0)},
      component_id : Components,
      invoice_date : Dates,
      op           : {"none"},
      result       : {None} ]

\* Store::fetch_slots
store_fetch_slots ==
    /\ slot_call # None
    /\ slot_call.op = "none"
    /\ slot_call.client = "Store"
    /\ slot_call' = [slot_call EXCEPT
                        !.op = "fetch_slots",
                        !.result = Some(fetch_slots(slot_call.outcome))]
    /\ UNCHANGED <<invoices, ledger, mrr, events, now, usage, price_job,
                   fin_job, last, eventbus, issue_job, activated, fee,
                   usage_call>>

\* MockSlotClient::fetch_slots
mock_client_fetch_slots ==
    /\ slot_call # None
    /\ slot_call.op = "none"
    /\ slot_call.client = "MockSlotClient"
    /\ slot_call' = [slot_call EXCEPT
                        !.op = "fetch_slots",
                        !.result = Some(mock_fetch_slots(
                                       slot_call.data, slot_call.component_id,
                                       slot_call.invoice_date))]
    /\ UNCHANGED <<invoices, ledger, mrr, events, now, usage, price_job,
                   fin_job, last, eventbus, issue_job, activated, fee,
                   usage_call>>

(***************************************************************************)
(* Tiered usage pricing (UsagePricingModel::Tiered over TierRow), after    *)
(* the design document: the tiers are ordered by first_unit, the first     *)
(* starts at unit 0, a tier ends where the next begins and the last has no *)
(* end.  The quantity is billed tier by tier, each portion at its tier's   *)
(* rate, with the tier's flat fee added once if any unit falls in it and   *)
(* the tier's amount capped by its flat cap.  Rates and amounts are        *)
(* integers (minor units); block_size is None.                             *)
(***************************************************************************)
TierRow(first_unit, rate, flat_fee, flat_cap) ==
    [ first_unit |-> first_unit, rate |-> rate, flat_fee |-> flat_fee,
      flat_cap |-> flat_cap ]

Min(a, b) == IF a <= b THEN a ELSE b

\* The units tier k spans: up to the next tier's first_unit; None for the
\* last tier.
tier_width(tiers, k) ==
    IF k < Len(tiers)
    THEN Some(tiers[k + 1].first_unit - tiers[k].first_unit)
    ELSE None

\* The portion with the end of the tier left out.
tier_units_unbounded(width, remaining) == remaining

\* The portion of the remaining quantity that falls in a tier of that width.
tier_units(width, remaining) ==
    IF width = None THEN remaining ELSE Min(remaining, width[1])

\* What a tier bills for the units that fall in it.
tier_amount(tier, units) ==
    IF units = 0 THEN 0
    ELSE LET priced == units * tier.rate + unwrap_or(tier.flat_fee, 0)
         IN  IF tier.flat_cap # None THEN Min(priced, tier.flat_cap[1])
             ELSE priced

\* The quantity billed incrementally across the tier boundaries, from tier k
\* on: one line per tier with its units and its amount.
RECURSIVE tiered_lines(_, _, _)
tiered_lines(tiers, k, remaining) ==
    IF k > Len(tiers) THEN << >>
    ELSE LET units == tier_units(tier_width(tiers, k), remaining)
         IN  << [tier |-> k, units |-> units,
                 amount |-> tier_amount(tiers[k], units)] >>
             \o tiered_lines(tiers, k + 1, remaining - units)

\* The units of the quantity between tier k's first_unit and the next
\* tier's.
units_within(tiers, k, quantity) ==
    LET last_unit == IF k < Len(tiers)
                     THEN Min(quantity, tiers[k + 1].first_unit)
                     ELSE quantity
    IN  IF last_unit > tiers[k].first_unit
        THEN last_unit - tiers[k].first_unit
        ELSE 0

\* The total billed for the quantity, from tier k on.
RECURSIVE tiered_total(_, _, _)
tiered_total(tiers, k, quantity) ==
    IF k > Len(tiers) THEN 0
    ELSE tier_amount(tiers[k], units_within(tiers, k, quantity))
         + tiered_total(tiers, k + 1, quantity)

\* The first units of n tiers.
RECURSIVE FirstUnits(_)
FirstUnits(n) ==
    IF n = 1 THEN {<<0>>}
    ELSE {Append(u, u[Len(u)] + step) : u \in FirstUnits(n - 1), step \in {2, 3}}

\* The k-th tier costs 10 - 2k a unit.
TierLists ==
    { [k \in 1..Len(u) |-> TierRow(u[k], 10 - 2 * k, flat_fee, flat_cap)] :
        u \in UNION {FirstUnits(n) : n \in 1..MaxFeeEntries},
        flat_fee \in {None, Some(7)}, flat_cap \in {None, Some(15)} }

UsageCalls ==
    [ tiers    : TierLists,
      quantity : 0..MaxQuantity,
      op       : {"none"},
      lines    : {<< >>},
      total    : {None} ]

\* The pricing engine prices a quantity under UsagePricingModel::Tiered.
price_tiered ==
    /\ usage_call # None
    /\ usage_call.op = "none"
    /\ usage_call' = [usage_call EXCEPT
                        !.op = "Tiered",
                        !.lines = tiered_lines(usage_call.tiers, 1,
                                               usage_call.quantity),
                        !.total = Some(tiered_total(usage_call.tiers, 1,
                                                    usage_call.quantity))]
    /\ UNCHANGED <<invoices, ledger, mrr, events, now, usage, price_job,
                   fin_job, last, eventbus, issue_job, activated, fee,
                   slot_call>>

\* The compute clients and the pricing alone: one slot lookup or one tiered
\* pricing, over every client content, query outcome, tier list and
\* quantity.
InitCompute ==
    /\ invoices = << >>
    /\ ledger = << >>
    /\ mrr = [s \in Subs |-> 0]
    /\ events = [c \in Subs \X Dates |-> << >>]
    /\ now = 0
    /\ usage = 0
    /\ price_job = None
    /\ fin_job = Idle
    /\ last = Result("init", "Ok", 0, 0)
    /\ eventbus = {}
    /\ issue_job = None
    /\ activated = {}
    /\ fee = << >>
    /\ \/ slot_call \in SlotCalls /\ usage_call = None
       \/ slot_call = None /\ usage_call \in UsageCalls

NextCompute ==
    \/ store_fetch_slots
    \/ mock_client_fetch_slots
    \/ price_tiered

SpecCompute == InitCompute /\ [][NextCompute]_vars

(***************************************************************************)
(* Whole worker runs, and the end-to-end scenario of the integration test: *)
(* the first period's invoice is Finalized, the second period's is         *)
(* inserted by hand as a Draft, and the draft, price, pending-status and   *)
(* finalize workers run one after the other on the day the second period   *)
(* ends, with 149 units measured.                                          *)
(***************************************************************************)
RECURSIVE price_all(_, _, _, _)
price_all(invs, ids, units, t) ==
    IF ids = {} THEN invs
    ELSE LET id == CHOOSE x \in ids : \A y \in ids : x <= y
         IN  price_all(
                update_lines(invs, id, compute_invoice_lines(invs[id], units), t),
                ids \ {id}, units, t)

\* One run of the price worker on the table invs.
price_run(invs, units, t) == price_all(invs, list_outdated(invs, t), units, t)

RECURSIVE finalize_all(_, _, _, _)
finalize_all(invs, ids, units, t) ==
    IF ids = {} THEN invs
    ELSE LET id == CHOOSE x \in ids : \A y \in ids : x <= y
         IN  finalize_all(
                finalize(invs, id, compute_invoice_lines(invs[id], units), t),
                ids \ {id}, units, t)

\* One run of the finalize worker on the table invs.
finalize_run(invs, units, t) ==
    finalize_all(invs, list_to_finalize(invs, t), units, t)

test_metering_e2e ==
    LET start    == [ invoices |-> << InvoiceNew("Finalized", "Recurring", 1, 0, Some(1)),
                                      InvoiceNew("Draft", "Recurring", 1, 1, Some(1)) >>,
                      ledger   |-> << >>,
                      mrr      |-> [s \in Subs |-> 0],
                      result   |-> "Ok" ]
        drafted  == draft_run(start, 2).invoices
        priced   == price_run(drafted, 149, 2)
        pending  == update_pending_finalization(priced, 2)
        finished == finalize_run(pending, 149, 2)
    IN  [ drafted |-> drafted, priced |-> priced, pending |-> pending,
          finished |-> finished ]

(***************************************************************************)
(* What the properties below read off a state or a step.                   *)
(***************************************************************************)
IsMrrType(t) == t \in {"Recurring", "Adjustment"}

\* The ledger rows attributed to invoice id.
RowsOf(l, id) == SelectSeq(l, LAMBDA r : r.invoice_id = id)

\* The events of the invoice's subscription dated on its invoice_date that
\* carry a delta other than zero.
DeltaEvents(inv) ==
    SelectSeq(events[<<inv.subscription_id, inv.invoice_date>>],
              LAMBDA e : e.mrr_delta # << >> /\ e.mrr_delta # <<0>>)

RECURSIVE SumDeltas(_)
SumDeltas(s) ==
    IF s = << >> THEN 0 ELSE s[1].net_mrr_change + SumDeltas(Tail(s))

\* The step is a call of insert_invoice that returned Ok.
InsertedOk ==
    /\ last'.op = "insert_invoice"
    /\ last'.result = "Ok"
    /\ Len(invoices') = Len(invoices) + 1

\* The rows the step added to the ledger.
AddedRows == SubSeq(ledger', Len(ledger) + 1, Len(ledger'))

\* C1 (as claimed): a call of insert_invoice that fails, at the row insert
\* or at any statement of process_mrr (fetching the events, inserting the
\* ledger rows, updating the subscription's MRR), is rolled back: it leaves
\* the invoice table, the ledger and the MRR totals as they were, so that
\* every Recurring or Adjustment invoice in the table has its ledger rows.
C1_FailedInsertRolledBack ==
    [][ (last'.op = "insert_invoice" /\ last'.result = "Err") =>
          /\ invoices' = invoices
          /\ ledger' = ledger
          /\ mrr' = mrr
          /\ \A i \in 1..Len(invoices') :
                IsMrrType(invoices'[i].invoice_type) =>
                    Len(RowsOf(ledger', i)) = Len(DeltaEvents(invoices'[i]))
      ]_vars

\* C2: a successful insert_invoice of a Recurring or Adjustment invoice adds
\* to the subscription's MRR total exactly the sum of net_mrr_change over
\* the ledger rows it inserted for that invoice.
C2_LedgerSumIsMrrDelta ==
    [][ (InsertedOk /\ IsMrrType(invoices'[last'.id].invoice_type)) =>
          LET s == invoices'[last'.id].subscription_id
          IN  /\ mrr'[s] - mrr[s] = SumDeltas(RowsOf(ledger', last'.id))
              /\ \A o \in Subs \ {s} : mrr'[o] = mrr[o] ]_vars

C2_Witness ==
    /\ last.op = "insert_invoice" /\ last.result = "Ok"
    /\ IsMrrType(invoices[last.id].invoice_type)
    /\ Len(RowsOf(ledger, last.id)) >= 2
    /\ mrr[invoices[last.id].subscription_id] # 0

\* C3: inserting an invoice whose type is neither Recurring nor Adjustment
\* adds no ledger row and leaves every MRR total unchanged, whatever events
\* are dated on its invoice_date.
C3_OtherTypesNeverMoveMrr ==
    [][ (last'.op = "insert_invoice"
         /\ Len(invoices') = Len(invoices) + 1
         /\ ~IsMrrType(invoices'[Len(invoices')].invoice_type)) =>
          /\ ledger' = ledger
          /\ mrr' = mrr
          /\ last'.result = "Ok" ]_vars

C3_Witness ==
    /\ last.op = "insert_invoice" /\ last.result = "Ok"
    /\ invoices[last.id].invoice_type = "OneTime"
    /\ DeltaEvents(invoices[last.id]) # << >>
    /\ RowsOf(ledger, last.id) = << >>

\* The event type a ledger row's description names.
EventTypeOf(d) ==
    CASE d = "Subscription created"     -> "Created"
      [] d = "Subscription activated"   -> "Activated"
      [] d = "Switched plan"            -> "Switch"
      [] d = "Subscription cancelled"   -> "Cancelled"
      [] d = "Subscription reactivated" -> "Reactivated"
      [] d = "Subscription updated"     -> "Updated"

\* C4: every ledger row has a non-zero delta and the movement type its event
\* type and the sign of its delta determine: Created and Activated give
\* NewBusiness, Switch and Updated give Expansion for a positive delta and
\* Contraction otherwise, Cancelled gives Churn, Reactivated Reactivation.
C4_MovementTypeByEventAndSign ==
    \A k \in 1..Len(ledger) :
        LET r == ledger[k]
            t == EventTypeOf(r.description)
        IN  /\ r.net_mrr_change # 0
            /\ (t \in {"Created", "Activated"} => r.movement_type = "NewBusiness")
            /\ (t \in {"Switch", "Updated"} /\ r.net_mrr_change > 0
                    => r.movement_type = "Expansion")
            /\ (t \in {"Switch", "Updated"} /\ r.net_mrr_change < 0
                    => r.movement_type = "Contraction")
            /\ (t = "Cancelled" => r.movement_type = "Churn")
            /\ (t = "Reactivated" => r.movement_type = "Reactivation")

C4_Witness ==
    /\ \E k \in 1..Len(ledger) :
          ledger[k].description = "Switched plan"
          /\ ledger[k].movement_type = "Contraction"
    /\ \E k \in 1..Len(ledger) :
          ledger[k].description = "Subscription updated"
          /\ ledger[k].movement_type = "Expansion"
    /\ \E k \in 1..Len(ledger) : ledger[k].movement_type = "NewBusiness"

\* C5: a successful insert_invoice of a Recurring or Adjustment invoice adds
\* exactly one ledger row per event dated on its invoice_date with a
\* non-zero delta, in order, each carrying its event's delta, the invoice's
\* id and date; events with an absent or zero delta add none and same-day
\* events are not consolidated.  A day holding the single event Cancelled
\* -5000 adds one Churn row of -5000 and lowers the MRR total by 5000.
C5_OneRowPerDeltaEvent ==
    [][ (InsertedOk /\ IsMrrType(invoices'[last'.id].invoice_type)) =>
          LET inv  == invoices'[last'.id]
              kept == DeltaEvents(inv)
              new  == AddedRows
          IN  /\ ledger' = ledger \o new
              /\ Len(new) = Len(kept)
              /\ \A k \in 1..Len(new) :
                    /\ new[k].net_mrr_change = kept[k].mrr_delta[1]
                    /\ new[k].description = description(kept[k].event_type)
                    /\ new[k].invoice_id = last'.id
                    /\ new[k].applies_to = inv.invoice_date
              /\ (events[<<inv.subscription_id, inv.invoice_date>>]
                      = << Ev("Cancelled", <<-5000>>) >>
                    => /\ Len(new) = 1
                       /\ new[1].movement_type = "Churn"
                       /\ new[1].net_mrr_change = -5000
                       /\ mrr'[inv.subscription_id]
                              = mrr[inv.subscription_id] - 5000) ]_vars

\* A Recurring invoice on the day of the single Cancelled -5000 event, and
\* one on a day whose events offset each other.
C5_Witness ==
    /\ last.op = "insert_invoice" /\ last.result = "Ok"
    /\ \E i, j \in 1..Len(invoices) :
          /\ events[<<invoices[i].subscription_id, invoices[i].invoice_date>>]
                = << Ev("Cancelled", <<-5000>>) >>
          /\ IsMrrType(invoices[i].invoice_type)
          /\ Len(RowsOf(ledger, i)) = 1
          /\ Len(events[<<invoices[j].subscription_id,
                          invoices[j].invoice_date>>]) = 3
          /\ IsMrrType(invoices[j].invoice_type)
          /\ Len(RowsOf(ledger, j)) = 2
          /\ SumDeltas(RowsOf(ledger, j)) = 0

\* The invoices of subscription s dated d.
CountAt(invs, s, d) ==
    Cardinality({i \in 1..Len(invs) :
        invs[i].subscription_id = s /\ invs[i].invoice_date = d})

\* The step is a run of the draft worker (every other step that leaves
\* `last` as it is changes the clock, the usage or a worker's job).
DraftWorkerStep ==
    /\ last'.op = "draft_worker"
    /\ UNCHANGED <<now, usage, price_job, fin_job>>

PriceRun(invs, id, units) ==
    update_lines(invs, id, compute_invoice_lines(invs[id], units), now)

C8_FinalizedNeverDraftAgain ==
    [][ \A i \in 1..Len(invoices) :
          invoices[i].status = "Finalized" =>
              /\ i <= Len(invoices')
              /\ invoices'[i].status # "Draft" ]_vars

\* The price worker's write has reached an invoice finalized meanwhile.
C8_Witness ==
    /\ last.op = "update_invoice_lines"
    /\ invoices[last.id].status = "Finalized"
    /\ invoices[last.id].finalized_at # << >>

\* C9: a call of finalize_invoice returns Ok; on an invoice a concurrent run
\* has already finalized it changes nothing (the invoice keeps its
\* finalized_at and its line items), and otherwise it finalizes the invoice
\* at the current time.  update_pending_finalization_invoices changes no row
\* that is not Draft.
C9_LosingUpdateIsNoOp ==
    [][ /\ \A w \in Workers :
              (fin_job[w] # << >> /\ fin_job'[w] = << >>) =>
                  LET id == fin_job[w][1].id
                  IN  /\ last'.op = "finalize_invoice"
                      /\ last'.result = "Ok"
                      /\ (invoices[id].status = "Finalized"
                              => invoices' = invoices)
                      /\ (invoices[id].status # "Finalized"
                              => /\ invoices'[id].status = "Finalized"
                                 /\ invoices'[id].finalized_at = <<now>>)
        /\ last'.op = "update_pending_finalization_invoices" =>
              \A i \in 1..Len(invoices) :
                  invoices[i].status # "Draft" => invoices'[i] = invoices[i]
      ]_vars

\* The second of two runs has called finalize_invoice on the invoice the
\* first finalized earlier.
C9_Witness ==
    /\ last.op = "finalize_invoice" /\ last.n = 0 /\ last.result = "Ok"
    /\ invoices[last.id].status = "Finalized"
    /\ invoices[last.id].finalized_at # <<now>>

C11_IssuedImpliesFinalizedAt ==
    \A i \in 1..Len(invoices) :
        invoices[i].issued => invoices[i].finalized_at # << >>

\* C12: no step lowers or resets the issue_attempts of an invoice (nor
\* removes the invoice).
C12_IssueAttemptsNeverDecrease ==
    [][ \A i \in 1..Len(invoices) :
          /\ i <= Len(invoices')
          /\ invoices'[i].issue_attempts >= invoices[i].issue_attempts ]_vars

\* An invoice that failed to issue, was issued on a later attempt and then
\* had its provider-side status written.
C12_Witness ==
    /\ last.op = "update_invoice_external_status" /\ last.result = "Ok"
    /\ invoices[last.id].issue_attempts >= 1
    /\ invoices[last.id].data_updated_at # << >>
    /\ invoices[last.id].external_status # << >>

\* The step is the issue worker recording the outcome of its attempt.
IssueOutcomeStep == issue_job # << >> /\ issue_job' = << >>

\* C13: recording a failed attempt adds exactly one to issue_attempts, sets
\* last_issue_error to the error reported and last_issue_attempt_at to the
\* current time and changes nothing else, so that the invoice is listed
\* again while its attempts are below the maximum; recording a successful
\* attempt sets issued and leaves the status.
C13_IssueOutcomeRecorded ==
    [][ IssueOutcomeStep =>
          LET id == issue_job[1]
              old == invoices[id]
              new == invoices'[id]
          IN  /\ \A i \in 1..Len(invoices) : i # id => invoices'[i] = invoices[i]
              /\ new.status = old.status
              /\ (last'.op = "invoice_issue_error" =>
                    /\ new.issue_attempts = old.issue_attempts + 1
                    /\ new.last_issue_error # << >>
                    /\ new.last_issue_error[1] \in IssueErrors
                    /\ new.last_issue_attempt_at = <<now>>
                    /\ new.issued = old.issued
                    /\ new = [old EXCEPT
                                !.issue_attempts = new.issue_attempts,
                                !.last_issue_error = new.last_issue_error,
                                !.last_issue_attempt_at = <<now>>]
                    /\ (new.issue_attempts < MaxAttempts =>
                            id \in list_to_issue(invoices', MaxAttempts)))
              /\ (last'.op = "invoice_issue_success" => new.issued)
              /\ last'.op \in {"invoice_issue_error", "invoice_issue_success"}
      ]_vars

\* An invoice issued on the attempt after a failed one.
C13_Witness ==
    /\ last.op = "invoice_issue_success"
    /\ invoices[last.id].issued
    /\ invoices[last.id].issue_attempts = 1
    /\ invoices[last.id].last_issue_error # << >>
    /\ invoices[last.id].last_issue_attempt_at = <<now>>

\* C14: list_to_issue returns only Finalized invoices that are not issued
\* and have fewer than MaxAttempts attempts; the issue worker attempts only
\* an invoice it listed, so it never attempts an issued invoice and never
\* takes issue_attempts above MaxAttempts.
C14_IssueRetriesBounded ==
    [][ /\ \A i \in list_to_issue(invoices, MaxAttempts) :
              /\ invoices[i].status = "Finalized"
              /\ ~invoices[i].issued
              /\ invoices[i].issue_attempts < MaxAttempts
        /\ (issue_job' # << >> /\ issue_job' # issue_job) =>
              issue_job'[1] \in list_to_issue(invoices, MaxAttempts)
        /\ IssueOutcomeStep =>
              /\ ~invoices[issue_job[1]].issued
              /\ invoices[issue_job[1]].status = "Finalized"
        /\ \A i \in 1..Len(invoices) :
              invoices'[i].issue_attempts # invoices[i].issue_attempts =>
                  invoices'[i].issue_attempts <= MaxAttempts ]_vars

\* An invoice whose attempts the issue worker has used up: it is not listed
\* any more.
C14_Witness ==
    /\ last.op = "invoice_issue_error"
    /\ invoices[last.id].finalized_at = <<now>>
    /\ invoices[last.id].issue_attempts = MaxAttempts
    /\ ~invoices[last.id].issued
    /\ last.id \notin list_to_issue(invoices, MaxAttempts)

\* C15: a call of finalize_invoice whose row update succeeded returns Ok and
\* leaves the invoice Finalized at the current time, whether the publish of
\* the invoice_finalized event succeeded (the event is on the bus) or
\* failed (it is not); the publish changes nothing but the bus.
C15_PublishFailureKeepsFinalized ==
    [][ \A w \in Workers :
          (fin_job[w] # << >> /\ fin_job'[w] = << >>
           /\ invoices[fin_job[w][1].id].status # "Finalized") =>
              LET job == fin_job[w][1]
              IN  /\ last'.result = "Ok"
                  /\ last'.n = 1
                  /\ invoices' = finalize(invoices, job.id, job.lines, now)
                  /\ invoices'[job.id].status = "Finalized"
                  /\ invoices'[job.id].finalized_at = <<now>>
                  /\ eventbus' \in {eventbus, eventbus \cup {job.id}}
                  /\ UNCHANGED <<ledger, mrr>> ]_vars

\* finalize_invoice has finalized an invoice and the publish of its event
\* failed.
C15_Witness ==
    /\ last.op = "finalize_invoice" /\ last.result = "Ok" /\ last.n = 1
    /\ last.id \notin eventbus
    /\ invoices[last.id].status = "Finalized"
    /\ invoices[last.id].finalized_at = <<now>>

\* The step is a run of the pending-status worker (every other step that
\* leaves `last` as it is changes the clock, the usage or a worker's job).
PendingWorkerStep ==
    /\ last'.op = "update_pending_finalization_invoices"
    /\ UNCHANGED <<now, usage, price_job, fin_job, issue_job>>

\* C16: a pending-status-worker run changes an invoice only by taking it
\* from Draft to PendingFinalization, and it does so exactly for the Draft
\* invoices whose grace period has passed and that the finalize worker
\* would not list; a Draft invoice the finalize worker would list stays
\* Draft, and no invoice in another status changes.
C16_PendingWorkerSkipsReady ==
    [][ PendingWorkerStep =>
          /\ Len(invoices') = Len(invoices)
          /\ \A i \in 1..Len(invoices) :
                LET due == /\ invoices[i].status = "Draft"
                           /\ invoices[i].invoice_date + GracePeriod <= now
                    ready == i \in list_to_finalize(invoices, now)
                IN  /\ (due /\ ~ready) =>
                          invoices'[i] =
                              [invoices[i] EXCEPT !.status = "PendingFinalization"]
                    /\ ~(due /\ ~ready) => invoices'[i] = invoices[i]
                    /\ (invoices[i].status = "Draft" /\ ready) =>
                          invoices'[i].status = "Draft" ]_vars

\* A pending-status-worker run has left alone a Draft invoice that is past
\* its grace period and ready to finalize.
C16_Witness ==
    /\ last.op = "update_pending_finalization_invoices" /\ last.n = 0
    /\ \E i \in 1..Len(invoices) :
          /\ invoices[i].status = "Draft"
          /\ invoices[i].invoice_date + GracePeriod <= now
          /\ i \in list_to_finalize(invoices, now)

\* An open invoice that is priced and whose period has closed.
Closed(inv, t) ==
    /\ inv.status \in {"Draft", "PendingFinalization"}
    /\ inv.invoice_date + GracePeriod <= t
    /\ inv.data_updated_at # << >>

Resolved(op, kind) == fee.op = op /\ fee.fee.kind = kind

Returned == fee.result[1]

\* The rates of the fee whose term is t.
RatesOfTerm(t) == {k \in 1..Len(fee.fee.rates) : fee.fee.rates[k].term = t}

\* C18: to_subscription_fee_parameterized on a Rate fee returns
\* InvalidArgument if a slot count or a committed capacity is given.
\* Otherwise, with a billing term it returns that term and the price of the
\* (first) rate of that term, InvalidArgument if there is none; without a
\* billing term it returns the term and price of the only rate,
\* InvalidArgument if the fee has no rate or several.
C18_RateFeeResolution ==
    Resolved("to_subscription_fee_parameterized", "Rate") =>
        LET rates == fee.fee.rates
            bp == fee.billing_period
        IN  IF fee.initial_slot_count # << >> \/ fee.committed_capacity # << >>
            THEN Returned.tag = "InvalidArgument"
            ELSE IF bp # << >>
            THEN IF RatesOfTerm(bp[1]) = {}
                 THEN Returned.tag = "InvalidArgument"
                 ELSE /\ Returned.tag = "Ok"
                      /\ Returned.period = bp[1]
                      /\ Returned.fee.kind = "Rate"
                      /\ \E k \in RatesOfTerm(bp[1]) :
                            /\ Returned.fee.rate = rates[k].price
                            /\ \A j \in RatesOfTerm(bp[1]) : k <= j
            ELSE IF Len(rates) = 1
                 THEN Returned = Ok(rates[1].term,
                                    [kind |-> "Rate", rate |-> rates[1].price])
                 ELSE Returned.tag = "InvalidArgument"

\* A Rate fee with several rates resolved to its Annual rate, which is not
\* its first rate.
C18_Witness ==
    /\ Resolved("to_subscription_fee_parameterized", "Rate")
    /\ Len(fee.fee.rates) >= 2
    /\ fee.fee.rates[1].term = "Monthly"
    /\ fee.billing_period = <<"Annual">>
    /\ Returned.tag = "Ok"
    /\ Returned.fee.rate > 1000

\* C19: a Slot fee resolved successfully, by either resolution, has as its
\* initial slots the explicit slot count if one was given (parameterized
\* resolution only), else the fee's minimum_count, else zero.
C19_SlotInitialSlots ==
    /\ (Resolved("to_subscription_fee_parameterized", "Slot")
        /\ Returned.tag = "Ok") =>
          IF fee.initial_slot_count # << >>
          THEN Returned.fee.initial_slots = fee.initial_slot_count[1]
          ELSE IF fee.fee.minimum_count # << >>
          THEN Returned.fee.initial_slots = fee.fee.minimum_count[1]
          ELSE Returned.fee.initial_slots = 0
    /\ (Resolved("to_subscription_fee", "Slot") /\ Returned.tag = "Ok") =>
          IF fee.fee.minimum_count # << >>
          THEN Returned.fee.initial_slots = fee.fee.minimum_count[1]
          ELSE Returned.fee.initial_slots = 0

\* A Slot fee with a minimum of 2 resolved without slot count.
C19_Witness ==
    /\ Resolved("to_subscription_fee_parameterized", "Slot")
    /\ fee.initial_slot_count = << >>
    /\ fee.fee.minimum_count = <<2>>
    /\ Returned.tag = "Ok"
    /\ Returned.fee.initial_slots = 2

\* C20: to_subscription_fee_parameterized on a Slot fee returns
\* InvalidArgument if no billing term is given, if no rate has the term
\* given, or if a committed capacity is given; otherwise it succeeds, the
\* billing period is the term given and the unit rate is the price of the
\* (first) rate of that term.
C20_SlotFeeResolution ==
    Resolved("to_subscription_fee_parameterized", "Slot") =>
        LET rates == fee.fee.rates
            bp == fee.billing_period
            bad == \/ bp = << >>
                   \/ fee.committed_capacity # << >>
                   \/ (bp # << >> /\ RatesOfTerm(bp[1]) = {})
        IN  IF bad
            THEN Returned.tag = "InvalidArgument"
            ELSE /\ Returned.tag = "Ok"
                 /\ Returned.period = bp[1]
                 /\ Returned.fee.kind = "Slot"
                 /\ \E k \in RatesOfTerm(bp[1]) :
                       /\ Returned.fee.unit_rate = rates[k].price
                       /\ \A j \in RatesOfTerm(bp[1]) : k <= j
                 /\ Returned.fee.min_slots = fee.fee.minimum_count
                 /\ Returned.fee.max_slots = fee.fee.quota

\* A Slot fee whose rates include the term asked for, rejected because a
\* committed capacity came with it.
C20_Witness ==
    /\ Resolved("to_subscription_fee_parameterized", "Slot")
    /\ fee.billing_period # << >>
    /\ RatesOfTerm(fee.billing_period[1]) # {}
    /\ fee.committed_capacity # << >>
    /\ Returned.tag = "InvalidArgument"
    /\ Returned.message = "Unexpected committed capacity for slot fee"

\* The thresholds of the fee whose included amount is c.
ThresholdsOf(c) ==
    {k \in 1..Len(fee.fee.thresholds) :
        fee.fee.thresholds[k].included_amount = c}

\* The thresholds of the fee that carry exactly what the resolution returned.
ThresholdsReturned ==
    {k \in 1..Len(fee.fee.thresholds) :
        /\ fee.fee.thresholds[k].price = Returned.fee.rate
        /\ fee.fee.thresholds[k].included_amount = Returned.fee.included
        /\ fee.fee.thresholds[k].per_unit_overage = Returned.fee.overage_rate}

\* C21: to_subscription_fee_parameterized on a Capacity fee with a committed
\* capacity that is no threshold's included_amount returns InvalidArgument,
\* whatever the other parameters; with a committed capacity that is a
\* threshold's included_amount (and no other parameter) it succeeds and
\* returns the price, included amount and per-unit overage of one threshold
\* -- the first whose included_amount is the committed capacity -- unchanged.
C21_CapacityThresholdMatch ==
    (Resolved("to_subscription_fee_parameterized", "Capacity")
     /\ fee.committed_capacity # << >>) =>
        LET thresholds == fee.fee.thresholds
            matching == ThresholdsOf(fee.committed_capacity[1])
        IN  IF matching = {}
            THEN Returned.tag = "InvalidArgument"
            ELSE (fee.billing_period = << >> /\ fee.initial_slot_count = << >>) =>
                    /\ Returned.tag = "Ok"
                    /\ Returned.fee.kind = "Capacity"
                    /\ Returned.fee.included = fee.committed_capacity[1]
                    /\ Cardinality(ThresholdsReturned) = 1
                    /\ \E k \in matching :
                          /\ ThresholdsReturned = {k}
                          /\ \A j \in matching : k <= j

\* A Capacity fee with thresholds of 1000 and then 100 resolved with a
\* committed capacity of 100: the second threshold is returned.
C21_Witness ==
    /\ Resolved("to_subscription_fee_parameterized", "Capacity")
    /\ Len(fee.fee.thresholds) >= 2
    /\ fee.fee.thresholds[1].included_amount = 1000
    /\ fee.fee.thresholds[2].included_amount = 100
    /\ fee.committed_capacity = <<100>>
    /\ Returned.tag = "Ok"
    /\ Returned.fee.rate = 2400
    /\ Returned.fee.overage_rate = 10

C23_NeverParameterizable ==
    (fee.op = "to_subscription_fee_parameterized"
     /\ fee.fee.kind \in {"Usage", "ExtraRecurring", "OneTime"}) =>
        /\ Returned.tag = "InvalidArgument"
        /\ Returned.message = "Cannot parameterize fee type"

\* An ExtraRecurring fee resolved with a billing term.
C23_Witness ==
    /\ Resolved("to_subscription_fee_parameterized", "ExtraRecurring")
    /\ fee.billing_period = <<"Annual">>
    /\ fee.initial_slot_count = << >>
    /\ fee.committed_capacity = << >>
    /\ Returned.tag = "InvalidArgument"

\* The parameters that select the single entry e of a fee of the given kind.
SelectingParameters(kind, e) ==
    CASE kind = "Rate" ->
            { [initial_slot_count |-> None, billing_period |-> None,
               committed_capacity |-> None],
              [initial_slot_count |-> None, billing_period |-> Some(e.term),
               committed_capacity |-> None] }
      [] kind = "Slot" ->
            { [initial_slot_count |-> None, billing_period |-> Some(e.term),
               committed_capacity |-> None] }
      [] kind = "Capacity" ->
            { [initial_slot_count |-> None, billing_period |-> None,
               committed_capacity |-> Some(e.included_amount)] }

\* C27: to_subscription_fee on a Rate, Slot or Capacity fee succeeds exactly
\* when the fee has one rate (one threshold), and then returns the billing
\* period and priced fee that to_subscription_fee_parameterized returns for
\* the parameters selecting that entry; with no entry or several it returns
\* InvalidArgument.
C27_PlainAgreesWithParameterized ==
    (fee.op = "to_subscription_fee"
     /\ fee.fee.kind \in {"Rate", "Slot", "Capacity"}) =>
        LET f == fee.fee
            entries == IF f.kind = "Capacity" THEN f.thresholds ELSE f.rates
        IN  IF Len(entries) = 1
            THEN /\ Returned.tag = "Ok"
                 /\ \A p \in SelectingParameters(f.kind, entries[1]) :
                       Returned = to_subscription_fee_parameterized(
                                      f, p.initial_slot_count, p.billing_period,
                                      p.committed_capacity)
            ELSE Returned.tag = "InvalidArgument"

\* A Slot fee with one Annual rate and a minimum of 2 resolved without
\* parameters.
C27_Witness ==
    /\ Resolved("to_subscription_fee", "Slot")
    /\ Len(fee.fee.rates) = 1
    /\ fee.fee.rates[1].term = "Annual"
    /\ fee.fee.minimum_count = <<2>>
    /\ Returned.tag = "Ok"
    /\ Returned.period = "Annual"
    /\ Returned.fee.initial_slots = 2

\* C30 (as claimed): every successful resolution of a Slot fee returns
\* initial slots of at least minimum_count when the fee has a minimum and at
\* most quota when it has a quota, an explicit slot count included.
C30_SlotCountWithinBounds ==
    (fee # << >> /\ fee.op # "none" /\ fee.fee.kind = "Slot"
     /\ Returned.tag = "Ok") =>
        /\ fee.fee.minimum_count # << >> =>
              Returned.fee.initial_slots >= fee.fee.minimum_count[1]
        /\ fee.fee.quota # << >> =>
              Returned.fee.initial_slots <= fee.fee.quota[1]

\* A step of update_invoice_external_status: it returned, or it wrote an
\* invoice's external status.
ExternalStatusStep ==
    \/ last'.op = "update_invoice_external_status" /\ last' # last
    \/ \E id \in 1..Len(invoices) :
          /\ Len(invoices') = Len(invoices)
          /\ invoices'[id].external_status # invoices[id].external_status

\* C28: a call of update_invoice_external_status that returns Ok has written
\* the external status and, if that status is Paid, has activated the
\* invoice's subscription, and has left the subscriptions as they were for
\* any other status; a call that returns Err (the status write, the invoice
\* lookup or the activation failed) has changed neither the invoice nor a
\* subscription.  No other operation activates a subscription.
C28_PaidActivatesAtomically ==
    [][ /\ ExternalStatusStep =>
              /\ last'.op = "update_invoice_external_status"
              /\ LET id == last'.id
                 IN  IF last'.result = "Ok"
                     THEN /\ invoices'[id].external_status # << >>
                          /\ IF invoices'[id].external_status = <<"Paid">>
                             THEN activated' =
                                    activated \cup {invoices[id].subscription_id}
                             ELSE activated' = activated
                     ELSE /\ invoices' = invoices
                          /\ activated' = activated
        /\ activated' # activated => ExternalStatusStep
      ]_vars

\* An issued invoice was reported Paid and its subscription is activated.
C28_Witness ==
    /\ last.op = "update_invoice_external_status"
    /\ last.result = "Ok"
    /\ invoices[last.id].external_status = <<"Paid">>
    /\ invoices[last.id].subscription_id \in activated

\* The sum of the deltas of the events of subscription s dated d.
RECURSIVE EventDeltas(_)
EventDeltas(evs) ==
    IF evs = << >> THEN 0
    ELSE (IF has_mrr_delta(evs[1]) THEN evs[1].mrr_delta[1] ELSE 0)
         + EventDeltas(Tail(evs))

\* The MRR total of subscription s once the events of the dates D have been
\* applied, each once.
RECURSIVE AppliedOnce(_, _)
AppliedOnce(s, D) ==
    IF D = {} THEN 0
    ELSE LET d == CHOOSE x \in D : TRUE
         IN  EventDeltas(events[<<s, d>>]) + AppliedOnce(s, D \ {d})

\* C26 (as claimed): whatever invoices have been inserted, the MRR total of
\* a subscription holds the delta of each of its events at most once: it is
\* the sum of the deltas of the events of some of its dates, each date
\* counted once, also after a second Recurring or Adjustment invoice for the
\* same subscription and invoice_date.
C26_DeltaAppliedAtMostOnce ==
    \A s \in Subs : \E D \in SUBSET Dates : mrr[s] = AppliedOnce(s, D)

\* A step of insert_invoice_batch.
BatchStep ==
    /\ last'.op = "insert_invoice_batch"
    /\ (last' # last \/ invoices' # invoices)

\* C29 (as claimed): a call of insert_invoice_batch that fails in the ledger
\* derivation of one of its invoices leaves no invoice of the batch in the
\* table and no ledger row or MRR update of the batch's earlier invoices; a
\* call that succeeds has derived the ledger rows of every Recurring or
\* Adjustment invoice of the batch.
C29_BatchAllOrNothing ==
    [][ BatchStep =>
          IF last'.result = "Ok"
          THEN \A i \in (Len(invoices) + 1)..Len(invoices') :
                  IsMrrType(invoices'[i].invoice_type) =>
                      Len(RowsOf(ledger', i)) = Len(DeltaEvents(invoices'[i]))
          ELSE /\ invoices' = invoices
               /\ ledger' = ledger
               /\ mrr' = mrr
      ]_vars

\* What the slot lookup returned.
SlotsReturned == slot_call.result[1]

\* C24: Store::fetch_slots returns InternalError whenever the slot query
\* fails and the query's value otherwise, so it returns zero only when the
\* query returned zero; MockSlotClient::fetch_slots returns the value it
\* holds for the (component, date) key and 0 for a key it does not hold.
C24_FetchSlotsNeverHidesFailure ==
    (slot_call # << >> /\ slot_call.op = "fetch_slots") =>
        LET key == <<slot_call.component_id, slot_call.invoice_date>>
        IN  IF slot_call.client = "Store"
            THEN IF slot_call.outcome.tag = "Ok"
                 THEN SlotsReturned = OkSlots(slot_call.outcome.value)
                 ELSE /\ SlotsReturned.tag = "InternalError"
                      /\ SlotsReturned # OkSlots(0)
            ELSE IF key \in DOMAIN slot_call.data
                 THEN SlotsReturned = OkSlots(slot_call.data[key])
                 ELSE SlotsReturned = OkSlots(0)

\* The store-backed lookup failed on a failed slot query.
C24_Witness ==
    /\ slot_call # << >>
    /\ slot_call.op = "fetch_slots"
    /\ slot_call.client = "Store"
    /\ slot_call.outcome.tag = "Err"
    /\ SlotsReturned.tag = "InternalError"

RECURSIVE SumAmounts(_)
SumAmounts(lines) ==
    IF lines = << >> THEN 0 ELSE lines[1].amount + SumAmounts(Tail(lines))

====
